---- MODULE Spec2Model ----
(***************************************************************************)
(* Model of bc3_importer/wizard/bc3_import_wizard.py (BC3ImportWizard).    *)
(*                                                                         *)
(* Text is modelled as Python models it: a str is a sequence of Unicode    *)
(* code points (naturals), a bytes object a sequence of naturals 0..255.   *)
(* The host records (bc3.version, sale.order, sale.order.line,             *)
(* product.product, uom.uom) are sets of records with an integer id; every *)
(* record an import creates carries the ghost field `by` naming the import *)
(* that created it.                                                        *)
(***************************************************************************)
EXTENDS Integers, Sequences, FiniteSets, TLC

VARIABLES
    pc,              \* per import: position inside action_import
    bc3_file,        \* per import: the Binary field (base64 text) or NoFile
    bc3_filename,    \* per import: the Char field
    version_id,      \* per import: id of the bc3.version it created (0: none)
    lines,           \* per import: result of _get_data_from_file
    concepts,        \* per import: result of _prepare_concepts_dict
    sale_order,      \* per import: id of the sale.order it created (0: none)
    k,               \* per import: index of the concept the loop is at
    product_uom,     \* per import: id of the resolved uom.uom
    product,         \* per import: id of the resolved product.product (0: none)
    lines_vals_list, \* per import: the values collected for sale.order.line
    raised,          \* per import: the exception that ended it ("none")
    versions,        \* table bc3.version
    orders,          \* table sale.order
    order_lines,     \* table sale.order.line
    products,        \* table product.product
    uoms,            \* table uom.uom
    arg,             \* argument of the function under test (pure-function runs)
    ret              \* its result

vars == <<pc, bc3_file, bc3_filename, version_id, lines, concepts, sale_order, k,
          product_uom, product, lines_vals_list, raised,
          versions, orders, order_lines, products, uoms, arg, ret>>

----------------------------------------------------------------------------
(* Bounds of the model.                                                    *)

MaxImports == 2      \* wizards whose action_import may run
MaxBytes == 3        \* length of the byte strings the decoder is run on
MaxLines == 3        \* length of the line sequences the extractor is run on

----------------------------------------------------------------------------
(* Characters.  Ord is Python's ord() on the printable ASCII characters,   *)
(* used to write the texts of the model; Str turns a tuple of one-character *)
(* strings into a str (sequence of code points).  The three characters    *)
(* that a TLA+ string cannot hold are written out as words.                *)

Printable ==
    <<" ", "!", "DQUOTE", "#", "$", "%", "&", "'", "(", ")", "*", "+", ",", "-", ".", "/",
      "0", "1", "2", "3", "4", "5", "6", "7", "8", "9", ":", ";", "<", "=", ">", "?",
      "@", "A", "B", "C", "D", "E", "F", "G", "H", "I", "J", "K", "L", "M", "N", "O",
      "P", "Q", "R", "S", "T", "U", "V", "W", "X", "Y", "Z", "[", "BACKSLASH", "]", "^", "_",
      "BACKTICK", "a", "b", "c", "d", "e", "f", "g", "h", "i", "j", "k", "l", "m", "n", "o",
      "p", "q", "r", "s", "t", "u", "v", "w", "x", "y", "z", "{", "|", "}", "~">>

Ord(c) == 31 + (CHOOSE i \in 1..Len(Printable) : Printable[i] = c)

Str(s) == [i \in 1..Len(s) |-> Ord(s[i])]

RECURSIVE Join(_, _)
(* sep.join(parts) *)
Join(parts, sep) ==
    IF Len(parts) = 0 THEN <<>>
    ELSE IF Len(parts) = 1 THEN parts[1]
    ELSE parts[1] \o sep \o Join(Tail(parts), sep)

SeqsUpTo(S, n) == UNION {[1..m -> S] : m \in 0..n}

(* the n-th smallest member of a set of integers *)
Nth(S, n) == CHOOSE i \in S : Cardinality({j \in S : j <= i}) = n

----------------------------------------------------------------------------
(* base64.b64decode(s) with validate=False, as binascii.a2b_base64 does it: *)
(* characters outside the alphabet are discarded, '=' ends the data once a *)
(* quantum holds at least two characters and the padding completes it, and *)
(* an incomplete last quantum with no such '=' raises binascii.Error.  The *)
(* operators below are written over index sets rather than by recursion on *)
(* the text, which may be long.                                            *)

B64Value(c) ==
    IF c >= 65 /\ c <= 90 THEN c - 65
    ELSE IF c >= 97 /\ c <= 122 THEN c - 71
    ELSE IF c >= 48 /\ c <= 57 THEN c + 4
    ELSE IF c = 43 THEN 62
    ELSE IF c = 47 THEN 63
    ELSE 64

IsB64(c) == B64Value(c) < 64

(* Where decoding stops: at the first '=' that completes a quantum, which  *)
(* is an '=' after 3 characters of the quantum, or the second '=' in a row *)
(* (other characters between them discarded) after 2.  0: no such '='.     *)
B64Stop(s) ==
    LET quad_pos(j) == Cardinality({i \in 1..(j - 1) : IsB64(s[i])}) % 4
        last(j) == IF \E i \in 1..(j - 1) : IsB64(s[i])
                   THEN CHOOSE i \in 1..(j - 1) :
                           IsB64(s[i]) /\ \A n \in (i + 1)..(j - 1) : ~IsB64(s[n])
                   ELSE 0
        pads(j) == Cardinality({i \in (last(j) + 1)..(j - 1) : s[i] = 61})
        stops == {j \in 1..Len(s) :
                     s[j] = 61 /\ quad_pos(j) >= 2 /\ quad_pos(j) + pads(j) + 1 >= 4}
    IN IF stops = {} THEN 0 ELSE Nth(stops, 1)

b64decode(s) ==
    LET stop == B64Stop(s)
        v == SelectSeq(IF stop = 0 THEN s ELSE SubSeq(s, 1, stop - 1), IsB64)
        n == Len(v)
        byte(m) ==
            LET g == 4 * ((m - 1) \div 3) IN
            CASE (m - 1) % 3 = 0 -> B64Value(v[g + 1]) * 4 + B64Value(v[g + 2]) \div 16
              [] (m - 1) % 3 = 1 ->
                    (B64Value(v[g + 2]) % 16) * 16 + B64Value(v[g + 3]) \div 4
              [] (m - 1) % 3 = 2 -> (B64Value(v[g + 3]) % 4) * 64 + B64Value(v[g + 4])
    IN
    IF stop = 0 /\ n % 4 # 0
    THEN [raised |-> "binascii.Error", data |-> <<>>]
    ELSE [raised |-> "none", data |-> [m \in 1..((n * 6) \div 8) |-> byte(m)]]

(* base64.b64encode, the transport encoding the upload layer applies; used *)
(* only to write the uploaded files of the model.                          *)
B64Char(v) ==
    IF v < 26 THEN v + 65
    ELSE IF v < 52 THEN v + 71
    ELSE IF v < 62 THEN v - 4
    ELSE IF v = 62 THEN 43 ELSE 47

b64encode(b) ==
    LET at(i) == IF i <= Len(b) THEN b[i] ELSE 0
        char(m) ==
            LET g == 3 * ((m - 1) \div 4) IN
            CASE (m - 1) % 4 = 0 -> B64Char(at(g + 1) \div 4)
              [] (m - 1) % 4 = 1 -> B64Char((at(g + 1) % 4) * 16 + at(g + 2) \div 16)
              [] (m - 1) % 4 = 2 ->
                    IF g + 2 > Len(b) THEN 61
                    ELSE B64Char((at(g + 2) % 16) * 4 + at(g + 3) \div 64)
              [] (m - 1) % 4 = 3 ->
                    IF g + 3 > Len(b) THEN 61 ELSE B64Char(at(g + 3) % 64)
    IN [m \in 1..(4 * ((Len(b) + 2) \div 3)) |-> char(m)]

----------------------------------------------------------------------------
(* bytes.decode('windows-1252'): bytes 0x00-0x7F and 0xA0-0xFF map to the  *)
(* code point of the same number, 0x80-0x9F through the table below, in    *)
(* which 0 marks the five bytes the code page leaves undefined (0x81,      *)
(* 0x8D, 0x8F, 0x90, 0x9D): a UnicodeDecodeError.                          *)

Cp1252High ==
    <<8364, 0, 8218, 402, 8222, 8230, 8224, 8225, 710, 8240, 352, 8249, 338, 0, 381, 0,
      0, 8216, 8217, 8220, 8221, 8226, 8211, 8212, 732, 8482, 353, 8250, 339, 0, 382, 376>>

Cp1252Char(b) == IF b >= 128 /\ b <= 159 THEN Cp1252High[b - 127] ELSE b

DecodeCp1252(data) ==
    IF \E i \in 1..Len(data) : Cp1252Char(data[i]) = 0 /\ data[i] # 0
    THEN [raised |-> "UnicodeDecodeError", text |-> <<>>]
    ELSE [raised |-> "none", text |-> [i \in 1..Len(data) |-> Cp1252Char(data[i])]]

(* bytes.decode('utf-8'), strict: shortest form only, no surrogates, at    *)
(* most U+10FFFF; any other sequence is a UnicodeDecodeError.              *)

IsCont(data, i) == i <= Len(data) /\ data[i] >= 128 /\ data[i] <= 191

(* the length of the sequence a lead byte opens; 0: not a lead byte *)
Utf8Len(b) ==
    IF b < 128 THEN 1
    ELSE IF b >= 194 /\ b <= 223 THEN 2
    ELSE IF b >= 224 /\ b <= 239 THEN 3
    ELSE IF b >= 240 /\ b <= 244 THEN 4
    ELSE 0

(* the sequence that starts at i is well formed *)
Utf8Good(data, i) ==
    LET b == data[i] IN
    /\ Utf8Len(b) > 0
    /\ \A j \in (i + 1)..(i + Utf8Len(b) - 1) : IsCont(data, j)
    /\ (b = 224 => data[i + 1] >= 160)
    /\ (b = 237 => data[i + 1] <= 159)
    /\ (b = 240 => data[i + 1] >= 144)
    /\ (b = 244 => data[i + 1] <= 143)

Utf8Point(data, i) ==
    LET b == data[i]
        c(j) == data[i + j] - 128
    IN
    CASE Utf8Len(b) = 1 -> b
      [] Utf8Len(b) = 2 -> (b - 192) * 64 + c(1)
      [] Utf8Len(b) = 3 -> (b - 224) * 4096 + c(1) * 64 + c(2)
      [] Utf8Len(b) = 4 -> (b - 240) * 262144 + c(1) * 4096 + c(2) * 64 + c(3)

(* The bytes are well formed when every byte that is no continuation byte  *)
(* opens a well-formed sequence and every continuation byte belongs to the *)
(* sequence of the nearest such byte before it.                            *)
DecodeUtf8(data) ==
    LET leads == {i \in 1..Len(data) : ~IsCont(data, i)}
        owned(i) == \E j \in leads :
                       /\ j < i /\ i - j < Utf8Len(data[j])
                       /\ \A n \in (j + 1)..i : IsCont(data, n)
    IN
    IF /\ \A i \in leads : Utf8Good(data, i)
       /\ \A i \in (1..Len(data)) \ leads : owned(i)
    THEN [raised |-> "none",
          text |-> [m \in 1..Cardinality(leads) |-> Utf8Point(data, Nth(leads, m))]]
    ELSE [raised |-> "UnicodeDecodeError", text |-> <<>>]

(* str.splitlines(): the line boundaries are \n, \r, \r\n, \v, \f, \x1c,   *)
(* \x1d, \x1e, \x85, U+2028 and U+2029; the breaks are not kept and a      *)
(* final break opens no further line.                                      *)

LineBreaks == {10, 11, 12, 13, 28, 29, 30, 133, 8232, 8233}

splitlines(text) ==
    LET n == Len(text)
        \* where a line break starts: a \n right after a \r belongs to the \r
        starts == {i \in 1..n : text[i] \in LineBreaks
                                /\ ~(text[i] = 10 /\ i > 1 /\ text[i - 1] = 13)}
        m == Cardinality(starts)
        stop(j) == Nth(starts, j)
        \* the first character after the j-th break (after the start: j = 0)
        from(j) == IF j = 0 THEN 1
                   ELSE IF text[stop(j)] = 13 /\ stop(j) < n /\ text[stop(j) + 1] = 10
                   THEN stop(j) + 2
                   ELSE stop(j) + 1
        broken == [j \in 1..m |-> SubSeq(text, from(j - 1), stop(j) - 1)]
    IN
    IF from(m) <= n THEN Append(broken, SubSeq(text, from(m), n)) ELSE broken

----------------------------------------------------------------------------
(* The fatal errors.  The code raises UserError with these messages; the   *)
(* names are the ones the specification gives them.                        *)

MissingInputError == "Please, upload a BC3 file."
DecodingError ==
    "The file encoding could not be determined. Please save it as UTF-8 or Windows-1252 (ANSI)."
NoValidDataError == "No valid concepts were found in the BC3 file to import."

(* _get_data_from_file, the try/except cascade: windows-1252 first, utf-8  *)
(* when that raises UnicodeDecodeError, UserError when that raises too.    *)
(* `attempted` lists the codecs that were called, in order.                *)

Decode_Utf8First(data) ==
    LET u == DecodeUtf8(data) IN
    IF u.raised = "none"
    THEN [raised |-> "none", lines |-> splitlines(u.text), attempted |-> <<"utf-8">>]
    ELSE LET l == DecodeCp1252(data) IN
         IF l.raised = "none"
         THEN [raised |-> "none", lines |-> splitlines(l.text),
               attempted |-> <<"utf-8", "windows-1252">>]
         ELSE [raised |-> DecodingError, lines |-> <<>>,
               attempted |-> <<"utf-8", "windows-1252">>]

Decode(data) ==
    LET l == DecodeCp1252(data) IN
    IF l.raised = "none"
    THEN [raised |-> "none", lines |-> splitlines(l.text),
          attempted |-> <<"windows-1252">>]
    ELSE LET u == DecodeUtf8(data) IN
         IF u.raised = "none"
         THEN [raised |-> "none", lines |-> splitlines(u.text),
               attempted |-> <<"windows-1252", "utf-8">>]
         ELSE [raised |-> DecodingError, lines |-> <<>>,
               attempted |-> <<"windows-1252", "utf-8">>]

(* _get_data_from_file.  A Binary field that was not set reads False; that *)
(* and the empty value are both the empty sequence here (`not bc3_file`).  *)

NoFile == <<>>

GetDataFromFile(file) ==
    IF Len(file) = 0
    THEN [raised |-> MissingInputError, lines |-> <<>>, attempted |-> <<>>]
    ELSE LET d == b64decode(file) IN
         IF d.raised # "none"
         THEN [raised |-> d.raised, lines |-> <<>>, attempted |-> <<>>]
         ELSE Decode(d.data)

----------------------------------------------------------------------------
(* str.strip(): removes the leading and trailing characters for which      *)
(* str.isspace() holds.                                                    *)

Whitespace ==
    {9, 10, 11, 12, 13, 28, 29, 30, 31, 32, 133, 160, 5760}
    \cup (8192..8202) \cup {8232, 8233, 8239, 8287, 12288}

StripOf(s, space) ==
    LET keep == {i \in 1..Len(s) : s[i] \notin space} IN
    IF keep = {} THEN <<>>
    ELSE SubSeq(s, CHOOSE i \in keep : \A j \in keep : i <= j,
                   CHOOSE i \in keep : \A j \in keep : i >= j)

strip(s) == StripOf(s, Whitespace)

startswith(s, prefix) ==
    Len(s) >= Len(prefix) /\ SubSeq(s, 1, Len(prefix)) = prefix

(* str.split(sep) for a one-character separator: every field, empty ones   *)
(* included.                                                               *)
split(s, sep) ==
    LET at == {i \in 1..Len(s) : s[i] = sep}
        m == Cardinality(at)
        stop(j) == IF j > m THEN Len(s) + 1 ELSE Nth(at, j)
        from(j) == IF j = 1 THEN 1 ELSE Nth(at, j - 1) + 1
    IN [j \in 1..(m + 1) |-> SubSeq(s, from(j), stop(j) - 1)]

(* str.replace(old, new) for one-character old and new.                    *)
replace(s, old, new) == [i \in 1..Len(s) |-> IF s[i] = old THEN new ELSE s[i]]

----------------------------------------------------------------------------
(* float(str).  A float is a record: kind "finite" with sign `neg` and the *)
(* value mant * 2^exp of the IEEE double, or kind "inf" with a sign, or    *)
(* kind "nan".  `mant` is the integer significand written as its sequence  *)
(* of decimal digits, most significant first (it has up to 53 bits): a     *)
(* normal double has 2^52 <= mant < 2^53 and -1074 <= exp <= 971, a        *)
(* subnormal one has 0 < mant < 2^52 and exp = -1074, and zero is          *)
(* mant = <<0>>, exp = 0.  Every double has exactly one such record.       *)
(* The text is converted as float() converts it: white space is stripped,  *)
(* every Unicode decimal digit stands for its value, and the decimal value *)
(* is rounded to the nearest double, ties to even, overflowing to inf and  *)
(* underflowing through the subnormals to zero.                            *)

FloatSpace == {9, 10, 11, 12, 13, 32} \cup {c \in Whitespace : c > 127}

(* the code points of the digit zero of every decimal-digit range (general *)
(* category Nd); the nine code points after each are its digits 1 to 9     *)
DecimalZeros ==
    {48, 1632, 1776, 1984, 2406, 2534, 2662, 2790, 2918, 3046, 3174, 3302,
     3430, 3558, 3664, 3792, 3872, 4160, 4240, 6112, 6160, 6470, 6608, 6784,
     6800, 6992, 7088, 7232, 7248, 42528, 43216, 43264, 43472, 43504, 43600,
     44016, 65296, 66720, 68912, 69734, 69872, 69942, 70096, 70384, 70736,
     70864, 71248, 71360, 71472, 71904, 72016, 72784, 73040, 73120, 92768,
     92864, 93008, 120782, 120792, 120802, 120812, 120822, 123200, 123632,
     125264, 130032}

(* the value of a decimal digit, -1 for any other code point *)
DigitValue(c) ==
    LET z == {x \in DecimalZeros : x <= c /\ c <= x + 9} IN
    IF c < 127 THEN (IF c >= 48 /\ c <= 57 THEN c - 48 ELSE -1)
    ELSE IF z = {} THEN -1
    ELSE c - (CHOOSE x \in z : TRUE)

IsDigit(c) == DigitValue(c) >= 0

Lower(c) == IF c >= 65 /\ c <= 90 THEN c + 32 ELSE c

IsDigitPart(d) ==
    /\ Len(d) > 0
    /\ \A i \in 1..Len(d) : IsDigit(d[i]) \/ d[i] = 95
    /\ IsDigit(d[1]) /\ IsDigit(d[Len(d)])
    /\ \A i \in 1..(Len(d) - 1) : ~(d[i] = 95 /\ d[i + 1] = 95)

(* the digits of a digit part, its underscores dropped *)
DigitsOf(d) ==
    LET kept == SelectSeq(d, LAMBDA c : c # 95) IN
    [i \in 1..Len(kept) |-> DigitValue(kept[i])]

Zeros(n) == [i \in 1..n |-> 0]

(* A decimal is [ds, pt]: the value 0.d1 d2 ... dn * 10^pt, with neither a *)
(* leading nor a trailing zero digit; zero has no digit.                   *)
Trim(ds, pt) ==
    LET nz == {i \in 1..Len(ds) : ds[i] # 0} IN
    IF nz = {} THEN [ds |-> <<>>, pt |-> 0]
    ELSE LET a == CHOOSE i \in nz : \A j \in nz : i <= j
             b == CHOOSE i \in nz : \A j \in nz : i >= j
         IN [ds |-> SubSeq(ds, a, b), pt |-> pt - (a - 1)]

(* Scaling by a power of two works on limbs of four digits.  A limb form   *)
(* is [ls, q]: the value 0.L1 L2 ... Ln in base 10^4, times 10^(4q), with  *)
(* neither a leading nor a trailing zero limb.                             *)
Base == 10000

ToLimbs(v) ==
    LET q == (v.pt + 3) \div 4
        lead == 4 * q - v.pt
        n == Len(v.ds)
        d(i) == IF i > lead /\ i <= lead + n THEN v.ds[i - lead] ELSE 0
    IN [ls |-> [j \in 1..((lead + n + 3) \div 4) |->
                   1000 * d(4 * j - 3) + 100 * d(4 * j - 2) + 10 * d(4 * j - 1) + d(4 * j)],
        q |-> q]

ToDigits(x) ==
    Trim([i \in 1..(4 * Len(x.ls)) |->
             (x.ls[((i - 1) \div 4) + 1] \div <<1000, 100, 10, 1>>[((i - 1) % 4) + 1]) % 10],
         4 * x.q)

(* c times a limb form, exactly, for c a divisor of Base: the carry into a *)
(* limb is then decided by the one limb after it                           *)
TimesSmall(x, c) ==
    LET n == Len(x.ls)
        l(j) == IF j >= 1 /\ j <= n THEN x.ls[j] ELSE 0
        out == [i \in 1..(n + 1) |-> (c * l(i - 1) + ((c * l(i)) \div Base)) % Base]
        a == IF out[1] = 0 THEN 2 ELSE 1
        b == IF out[n + 1] = 0 THEN n ELSE n + 1
    IN [ls |-> SubSeq(out, a, b), q |-> x.q + 1 - (a - 1)]

RECURSIVE Repeat(_, _, _)
(* x * 16^a when up, x / 16^a otherwise (x / 16 is 625 x / Base); the test *)
(* on `half` has it evaluated before it is passed on                       *)
Repeat(x, up, a) ==
    IF a = 0 THEN x
    ELSE IF a = 1
    THEN IF up THEN TimesSmall(x, 16)
         ELSE [ls |-> TimesSmall(x, 625).ls, q |-> TimesSmall(x, 625).q - 1]
    ELSE LET half == Repeat(x, up, a \div 2)
         IN IF Len(half.ls) = 0 THEN half ELSE Repeat(half, up, a - (a \div 2))

(* v * 2^n, exactly: 2^n is 2^r * 16^a, with a < 0 when n < 0 *)
Scale(v, n) ==
    LET up == n > 0
        a == IF up THEN n \div 4 ELSE (3 - n) \div 4
        r == IF up THEN n % 4 ELSE 4 * a + n
        first == TimesSmall(ToLimbs(v), <<1, 2, 4, 8>>[r + 1])
    IN IF n = 0 \/ Len(v.ds) = 0 THEN v ELSE ToDigits(Repeat(first, up, a))

(* the digits before the point, and those after it *)
IntPart(v) ==
    LET n == Len(v.ds) IN
    IF v.pt <= 0 THEN <<0>>
    ELSE IF v.pt >= n THEN v.ds \o Zeros(v.pt - n)
    ELSE SubSeq(v.ds, 1, v.pt)

FracPart(v) ==
    LET n == Len(v.ds) IN
    IF v.pt >= n THEN <<>>
    ELSE IF v.pt <= 0 THEN Zeros(0 - v.pt) \o v.ds
    ELSE SubSeq(v.ds, v.pt + 1, n)

TwoTo52 == <<4, 5, 0, 3, 5, 9, 9, 6, 2, 7, 3, 7, 0, 4, 9, 6>>
TwoTo53 == <<9, 0, 0, 7, 1, 9, 9, 2, 5, 4, 7, 4, 0, 9, 9, 2>>

(* a < b for two integers written in digits, without leading zeros *)
Less(a, b) ==
    LET diff == {i \in 1..Len(a) : i <= Len(b) /\ a[i] # b[i]} IN
    \/ Len(a) < Len(b)
    \/ /\ Len(a) = Len(b)
       /\ diff # {}
       /\ LET i == CHOOSE x \in diff : \A y \in diff : x <= y IN a[i] < b[i]

(* the integer after m *)
Succ(m) ==
    LET low == {i \in 1..Len(m) : m[i] # 9} IN
    IF low = {} THEN <<1>> \o Zeros(Len(m))
    ELSE LET p == CHOOSE i \in low : \A j \in low : i >= j IN
         [i \in 1..Len(m) |-> IF i < p THEN m[i] ELSE IF i = p THEN m[i] + 1 ELSE 0]

(* the integer nearest to a decimal, a tie going to the even one *)
RoundHalfEven(v) ==
    LET m == IntPart(v)
        f == FracPart(v)
        up == /\ Len(f) > 0
              /\ \/ f[1] > 5
                 \/ f[1] = 5 /\ Len(f) > 1
                 \/ f[1] = 5 /\ Len(f) = 1 /\ m[Len(m)] % 2 = 1
    IN IF up THEN Succ(m) ELSE m

RECURSIVE Settle(_, _)
(* w * 2^e with w halved until it is below 2^53 *)
Settle(w, e) ==
    IF Less(IntPart(w), TwoTo53) THEN [w |-> w, e |-> e]
    ELSE Settle(Scale(w, -1), e + 1)

FloatZero == [kind |-> "finite", neg |-> FALSE, mant |-> <<0>>, exp |-> 0]
FloatOne == [kind |-> "finite", neg |-> FALSE, mant |-> TwoTo52, exp |-> -52]
FloatError == [kind |-> "ValueError", neg |-> FALSE, mant |-> <<0>>, exp |-> 0]

(* The double nearest to the decimal v.  v lies in [10^(pt-1), 10^pt), so  *)
(* it is at least 2^low; it is scaled into [2^52, 2^53), or by 2^1074 when *)
(* it is subnormal, and rounded there.                                     *)
Rounded(neg, v) ==
    LET zero == [kind |-> "finite", neg |-> neg, mant |-> <<0>>, exp |-> 0]
        inf == [kind |-> "inf", neg |-> neg, mant |-> <<0>>, exp |-> 0]
        low == (((v.pt - 1) * 3321928) \div 1000000) - 1
        e0 == IF low - 52 < -1074 THEN -1074 ELSE low - 52
        s == Settle(Scale(v, 0 - e0), e0)
        m == RoundHalfEven(s.w)
        mant == IF m = TwoTo53 THEN TwoTo52 ELSE m
        exp == IF m = TwoTo53 THEN s.e + 1 ELSE s.e
    IN
    IF Len(v.ds) = 0 THEN zero
    ELSE IF v.pt > 310 THEN inf
    ELSE IF v.pt < -324 THEN zero
    ELSE IF mant = <<0>> THEN zero
    ELSE IF exp > 971 THEN inf
    ELSE [kind |-> "finite", neg |-> neg, mant |-> mant, exp |-> exp]

FirstIndex(s, chars) ==
    LET at == {i \in 1..Len(s) : s[i] \in chars} IN
    IF at = {} THEN 0 ELSE CHOOSE i \in at : \A j \in at : i <= j

RECURSIVE ValueOf(_, _)
ValueOf(ds, acc) ==
    IF Len(ds) = 0 THEN acc ELSE ValueOf(Tail(ds), acc * 10 + ds[1])

(* an exponent too large to matter: past it every nonzero value is inf or  *)
(* zero whatever its digits                                                *)
HugeExponent == 1000000000

(* the value of the exponent's digits, held at HugeExponent *)
ExponentOf(xdigits) ==
    LET ds == DigitsOf(xdigits)
        nz == {i \in 1..Len(ds) : ds[i] # 0}
        sig == SubSeq(ds, CHOOSE i \in nz : \A j \in nz : i <= j, Len(ds))
    IN IF nz = {} THEN 0
       ELSE IF Len(sig) > 9 THEN HugeExponent
       ELSE ValueOf(sig, 0)

ParseNumber(neg, body) ==
    LET e == FirstIndex(body, {69, 101})
        m == IF e = 0 THEN body ELSE SubSeq(body, 1, e - 1)
        x == IF e = 0 THEN <<>> ELSE SubSeq(body, e + 1, Len(body))
        xsigned == Len(x) > 0 /\ x[1] \in {43, 45}
        xdigits == IF xsigned THEN Tail(x) ELSE x
        dot == FirstIndex(m, {46})
        ip == IF dot = 0 THEN m ELSE SubSeq(m, 1, dot - 1)
        fp == IF dot = 0 THEN <<>> ELSE SubSeq(m, dot + 1, Len(m))
        mantissa_ok ==
            \/ IsDigitPart(ip) /\ (dot = 0 \/ Len(fp) = 0 \/ IsDigitPart(fp))
            \/ Len(ip) = 0 /\ dot # 0 /\ IsDigitPart(fp)
        exponent_ok == e = 0 \/ IsDigitPart(xdigits)
        whole == DigitsOf(ip)
        expv == IF e = 0 THEN 0
                ELSE IF xsigned /\ x[1] = 45 THEN 0 - ExponentOf(xdigits)
                ELSE ExponentOf(xdigits)
    IN
    IF mantissa_ok /\ exponent_ok
    THEN Rounded(neg, Trim(whole \o DigitsOf(fp), Len(whole) + expv))
    ELSE FloatError

float(s) ==
    LET t == StripOf(s, FloatSpace)
        signed == Len(t) > 0 /\ t[1] \in {43, 45}
        neg == signed /\ t[1] = 45
        body == IF signed THEN Tail(t) ELSE t
        low == [i \in 1..Len(body) |-> Lower(body[i])]
    IN
    IF low = <<105, 110, 102>> \/ low = <<105, 110, 102, 105, 110, 105, 116, 121>>
    THEN [kind |-> "inf", neg |-> neg, mant |-> <<0>>, exp |-> 0]
    ELSE IF low = <<110, 97, 110>>
    THEN [kind |-> "nan", neg |-> FALSE, mant |-> <<0>>, exp |-> 0]
    ELSE ParseNumber(neg, body)

IsFinite(v) == v.kind = "finite"

(* v >= 0 in Python: true of -0.0, false of nan *)
NonNegative(v) ==
    (v.kind = "finite" /\ (~v.neg \/ v.mant = <<0>>)) \/ (v.kind = "inf" /\ ~v.neg)

----------------------------------------------------------------------------
(* _prepare_concepts_dict.  The dict `concepts` is the sequence of its     *)
(* entries in insertion order (the order concepts.values() iterates in);   *)
(* assigning to a key that is present replaces the entry where it stands.  *)
(* `log` holds the diagnostics written to _logger.                         *)

DELIMITER == 124

Marker == <<126, 67, DELIMITER>>       \* "~C" + DELIMITER

HasKey(dict, code) == \E i \in 1..Len(dict) : dict[i].code = code

SetItem(dict, entry) ==
    IF HasKey(dict, entry.code)
    THEN [i \in 1..Len(dict) |-> IF dict[i].code = entry.code THEN entry ELSE dict[i]]
    ELSE Append(dict, entry)

Entry(parts, price, vid) ==
    [code |-> parts[1], description |-> parts[3], uom |-> parts[2],
     price |-> price, quantity |-> FloatOne, version_id |-> vid]

PriceOf(price_str) ==
    IF Len(price_str) > 0 THEN float(replace(price_str, 44, 46)) ELSE FloatZero

(* a variant that keeps the first entry of a code *)
ConceptLine_FirstWins(st, line_raw, vid) ==
    LET line == strip(line_raw)
        parts == split(SubSeq(line, 4, Len(line)), DELIMITER)
        price == PriceOf(parts[4])
    IN
    IF st.raised # "none" THEN st
    ELSE IF ~startswith(line, Marker) THEN st
    ELSE IF Len(parts) >= 4
    THEN IF Len(parts[1]) = 0 THEN st
         ELSE IF price.kind = "ValueError"
         THEN [st EXCEPT !.log = Append(st.log, [level |-> "error", line |-> line])]
         ELSE [st EXCEPT !.concepts = IF HasKey(st.concepts, parts[1]) THEN st.concepts
                               ELSE SetItem(st.concepts, Entry(parts, price, vid))]
    ELSE [st EXCEPT !.log = Append(st.log, [level |-> "warning", line |-> line])]

(* a variant that lets the ValueError of float() escape *)
ConceptLine_Raises(st, line_raw, vid) ==
    LET line == strip(line_raw)
        parts == split(SubSeq(line, 4, Len(line)), DELIMITER)
        price == PriceOf(parts[4])
    IN
    IF st.raised # "none" THEN st
    ELSE IF ~startswith(line, Marker) THEN st
    ELSE IF Len(parts) >= 4
    THEN IF Len(parts[1]) = 0 THEN st
         ELSE IF price.kind = "ValueError"
         THEN [st EXCEPT !.raised = "ValueError"]
         ELSE [st EXCEPT !.concepts = SetItem(st.concepts, Entry(parts, price, vid))]
    ELSE [st EXCEPT !.log = Append(st.log, [level |-> "warning", line |-> line])]

(* one pass of the loop body (the state after an exception escaped is   *)
(* left as it is: the loop has ended)                                      *)
ConceptLine(st, line_raw, vid) ==
    LET line == strip(line_raw)
        parts == split(SubSeq(line, 4, Len(line)), DELIMITER)
        price == PriceOf(parts[4])
    IN
    IF st.raised # "none" THEN st
    ELSE IF ~startswith(line, Marker) THEN st
    ELSE IF Len(parts) >= 4
    THEN IF Len(parts[1]) = 0 THEN st
         ELSE IF price.kind = "ValueError"
         THEN [st EXCEPT !.log = Append(st.log, [level |-> "error", line |-> line])]
         ELSE [st EXCEPT !.concepts = SetItem(st.concepts, Entry(parts, price, vid))]
    ELSE [st EXCEPT !.log = Append(st.log, [level |-> "warning", line |-> line])]

RECURSIVE ConceptsFrom(_, _, _, _)
ConceptsFrom(lns, i, st, vid) ==
    IF i > Len(lns) THEN st
    ELSE ConceptsFrom(lns, i + 1, ConceptLine(st, lns[i], vid), vid)

PrepareConceptsDict(lns, vid) ==
    ConceptsFrom(lns, 1, [raised |-> "none", concepts |-> <<>>, log |-> <<>>], vid)

----------------------------------------------------------------------------
(* The texts the model is run on.                                          *)

cA1 == Str(<<"A", "1">>)
cA2 == Str(<<"A", "2">>)
uM2 == Str(<<"m", "2">>)
uKg == Str(<<"k", "g">>)
uUnits == Str(<<"U", "n", "i", "t", "s">>)
dWall == Str(<<"W", "a", "l", "l">>)
dDoor == Str(<<"D", "o", "o", "r">>)
Tag == Str(<<"~", "C">>)

Line(fields) == Join(fields, <<DELIMITER>>)

(* lines for the extractor: usable ones, and one of every kind it skips    *)
LinePool ==
    { Line(<<Tag, cA1, uM2, dWall, Str(<<"1", "2", ",", "5", "0">>)>>),
      Line(<<Tag, cA1, uKg, dDoor, Str(<<"5">>), Str(<<"x">>)>>),
      Line(<<Tag, cA2, uM2, dDoor, Str(<<"1", ".", "5">>)>>),
      <<32, 9>> \o Line(<<Tag, cA2, uM2, dWall, <<>>>>) \o <<32>>,
      Line(<<Tag, cA1, uM2, dDoor>>),
      Line(<<Tag, <<>>, uM2, dWall, Str(<<"5">>)>>),
      Line(<<Tag, cA1, uM2, dWall, Str(<<"a", "b", "c">>)>>),
      Line(<<Tag, cA2, uM2, dWall, Str(<<"-", "5">>)>>),
      Line(<<Tag, cA2, uKg, dDoor, Str(<<"i", "n", "f">>)>>),
      Line(<<Str(<<"~", "V">>), cA1, uM2, dWall, Str(<<"5">>)>>),
      <<>> }

(* bytes for the decoder: ASCII, line breaks, the byte 0x81 that           *)
(* windows-1252 leaves undefined, 0x85 (its ellipsis; after 0xC2 the UTF-8 *)
(* form of the line break U+0085), and the UTF-8 lead bytes 0xC2 and 0xC3  *)
(* with the continuation byte 0xA9                                         *)
DecodeBytes == {65, 10, 13, 129, 133, 169, 194, 195}

(* the uploaded files: the field bc3_file with the field bc3_filename      *)
(* str.encode('windows-1252'), as the program that wrote the file did *)
EncodeCp1252(text) ==
    [n \in 1..Len(text) |-> CHOOSE b \in 0..255 : Cp1252Char(b) = text[n]]

FileOf(lns) == b64encode(EncodeCp1252(Join(lns, <<13, 10>>)))

Uploads ==
    { [bc3_file |-> NoFile, bc3_filename |-> ""],
      [bc3_file |-> b64encode(<<126, 67, 124, 129>>), bc3_filename |-> ""],
      [bc3_file |-> FileOf(<<Line(<<Str(<<"~", "V">>), cA1>>),
                             Line(<<Tag, cA2, uM2, dDoor>>)>>),
       bc3_filename |-> ""],
      [bc3_file |-> FileOf(<<Line(<<Tag, cA1, uM2, dWall,
                                    Str(<<"1", "2", ",", "5", "0">>)>>)>>),
       bc3_filename |-> "obra.bc3"],
      [bc3_file |-> FileOf(<<Line(<<Tag, cA1, uKg, dDoor, Str(<<"5">>)>>),
                             Line(<<Tag, cA2, uM2, dDoor, Str(<<"7">>)>>)>>),
       bc3_filename |-> ""] }

----------------------------------------------------------------------------
(* The host tables.                                                        *)

Imports == 1..MaxImports

(* env.ref("uom.product_uom_unit"): the id of the unit "Units" *)
DefaultUom == 1

InitialUoms == {[id |-> DefaultUom, name |-> uUnits], [id |-> 2, name |-> uM2]}

(* a catalog item that exists before any import: reference code "Wall" *)
ExistingWall ==
    [id |-> 1, name |-> dWall, default_code |-> dWall, type |-> "consu",
     uom_id |-> 2, uom_po_id |-> 2,
     list_price |-> float(<<57, 57>>),
     by |-> 0]

NextId(table) == Cardinality(table) + 1

MinId(records) ==
    IF records = {} THEN 0
    ELSE (CHOOSE r \in records : \A q \in records : r.id <= q.id).id

(* self.env["uom.uom"].search([("name", "=", concept["uom"])], limit=1),   *)
(* then the fallback to env.ref("uom.product_uom_unit")                    *)
ResolveUom_Default(table, concept) == DefaultUom

ResolveUom(table, concept) ==
    LET found == MinId({u \in table : u.name = concept.uom}) IN
    IF found = 0 THEN DefaultUom ELSE found

(* self.env["product.product"].search(                                     *)
(*     [("default_code", "=", concept["description"])], limit=1); 0: empty *)
SearchProduct_ByCode(table, concept) ==
    MinId({q \in table : q.default_code = concept.code})

SearchProduct(table, concept) ==
    MinId({q \in table : q.default_code = concept.description})

(* the values of the product.product created on a miss *)
ProductVals(concept, uom) ==
    [name |-> concept.description, default_code |-> concept.description,
     type |-> "service", uom_id |-> uom, uom_po_id |-> uom,
     list_price |-> concept.price]

(* the dict _prepare_sale_order_line_from_concept returns *)
LineVals_ListPrice(concept, order, item, uom) ==
    [order_id |-> order, product_id |-> item.id, product_uom_qty |-> concept.quantity,
     price_unit |-> item.list_price, name |-> item.name, product_uom |-> uom]

LineVals(concept, order, item, uom) ==
    [order_id |-> order, product_id |-> item.id, product_uom_qty |-> concept.quantity,
     price_unit |-> concept.price, name |-> concept.description, product_uom |-> uom]

(* _prepare_sale_order_vals *)
SaleOrderVals(i) ==
    [name |-> IF bc3_filename[i] # "" THEN bc3_filename[i] ELSE "Imported BC3",
     bc3_version_id |-> version_id[i]]

(* Model.create: the records get the next ids, in the order of the list *)
Created(table, vals_list, i) ==
    {vals_list[n] @@ [id |-> Cardinality(table) + n, by |-> i] : n \in 1..Len(vals_list)}

----------------------------------------------------------------------------
(* State.                                                                  *)

NotRun == [raised |-> "not run"]

Idle ==
    /\ version_id = [i \in Imports |-> 0]
    /\ lines = [i \in Imports |-> <<>>]
    /\ concepts = [i \in Imports |-> <<>>]
    /\ sale_order = [i \in Imports |-> 0]
    /\ k = [i \in Imports |-> 0]
    /\ product_uom = [i \in Imports |-> 0]
    /\ product = [i \in Imports |-> 0]
    /\ lines_vals_list = [i \in Imports |-> <<>>]
    /\ raised = [i \in Imports |-> "none"]
    /\ versions = {}
    /\ orders = {}
    /\ order_lines = {}
    /\ uoms = InitialUoms

(* Every wizard holds the fields the upload form gave it; the catalog is   *)
(* empty or holds one item.                                                *)
Init ==
    /\ Idle
    /\ pc = [i \in Imports |-> "ready"]
    /\ \E up \in [Imports -> Uploads] :
          /\ bc3_file = [i \in Imports |-> up[i].bc3_file]
          /\ bc3_filename = [i \in Imports |-> up[i].bc3_filename]
    /\ products \in {{}, {ExistingWall}}
    /\ arg = <<>>
    /\ ret = NotRun

Fail(i, error) ==
    /\ pc' = [pc EXCEPT ![i] = "failed"]
    /\ raised' = [raised EXCEPT ![i] = error]

(* action_import, line 156: the version marker is created first *)
CreateVersion(i) ==
    /\ pc[i] = "ready"
    /\ versions' = versions \cup
          Created(versions,
                  <<[name |-> IF bc3_filename[i] # "" THEN bc3_filename[i]
                              ELSE "BC3 Import"]>>, i)
    /\ version_id' = [version_id EXCEPT ![i] = NextId(versions)]
    /\ pc' = [pc EXCEPT ![i] = "get_data"]
    /\ UNCHANGED <<bc3_file, bc3_filename, lines, concepts, sale_order, k, product_uom,
                   product, lines_vals_list, raised, orders, order_lines, products,
                   uoms, arg, ret>>

(* action_import, line 157 *)
GetData(i) ==
    /\ pc[i] = "get_data"
    /\ LET r == GetDataFromFile(bc3_file[i]) IN
       \/ /\ r.raised # "none"
          /\ Fail(i, r.raised)
          /\ UNCHANGED lines
       \/ /\ r.raised = "none"
          /\ lines' = [lines EXCEPT ![i] = r.lines]
          /\ pc' = [pc EXCEPT ![i] = "prepare"]
          /\ UNCHANGED raised
    /\ UNCHANGED <<bc3_file, bc3_filename, version_id, concepts, sale_order, k,
                   product_uom, product, lines_vals_list, versions, orders,
                   order_lines, products, uoms, arg, ret>>

(* action_import, line 158 *)
PrepareConcepts(i) ==
    /\ pc[i] = "prepare"
    /\ LET r == PrepareConceptsDict(lines[i], version_id[i]) IN
       IF r.raised # "none"
       THEN Fail(i, r.raised) /\ UNCHANGED concepts
       ELSE /\ concepts' = [concepts EXCEPT ![i] = r.concepts]
            /\ pc' = [pc EXCEPT ![i] = "create_order"]
            /\ UNCHANGED raised
    /\ UNCHANGED <<bc3_file, bc3_filename, version_id, lines, sale_order, k,
                   product_uom, product, lines_vals_list, versions, orders,
                   order_lines, products, uoms, arg, ret>>

(* a variant that creates the order header before it looks at the table *)
CreateOrder_Unchecked(i) ==
    /\ pc[i] = "create_order"
    /\ orders' = orders \cup Created(orders, <<SaleOrderVals(i)>>, i)
    /\ sale_order' = [sale_order EXCEPT ![i] = NextId(orders)]
    /\ IF Len(concepts[i]) = 0
       THEN Fail(i, NoValidDataError) /\ UNCHANGED <<k, lines_vals_list>>
       ELSE /\ k' = [k EXCEPT ![i] = 1]
            /\ lines_vals_list' = [lines_vals_list EXCEPT ![i] = <<>>]
            /\ pc' = [pc EXCEPT ![i] = "loop"]
            /\ UNCHANGED raised
    /\ UNCHANGED <<bc3_file, bc3_filename, version_id, lines, concepts, product_uom,
                   product, versions, order_lines, products, uoms, arg, ret>>

(* _create_sale_order_and_lines, lines 135-141: the emptiness check, then  *)
(* the order header                                                        *)
CreateOrder(i) ==
    /\ pc[i] = "create_order"
    /\ \/ /\ Len(concepts[i]) = 0
          /\ Fail(i, NoValidDataError)
          /\ UNCHANGED <<orders, sale_order, k, lines_vals_list>>
       \/ /\ Len(concepts[i]) > 0
          /\ orders' = orders \cup Created(orders, <<SaleOrderVals(i)>>, i)
          /\ sale_order' = [sale_order EXCEPT ![i] = NextId(orders)]
          /\ k' = [k EXCEPT ![i] = 1]
          /\ lines_vals_list' = [lines_vals_list EXCEPT ![i] = <<>>]
          /\ pc' = [pc EXCEPT ![i] = "loop"]
          /\ UNCHANGED raised
    /\ UNCHANGED <<bc3_file, bc3_filename, version_id, lines, concepts, product_uom,
                   product, versions, order_lines, products, uoms, arg, ret>>

ItemOf(table, id) == CHOOSE q \in table : q.id = id

(* _prepare_sale_order_line_from_concept, lines 97-105 and, when the item  *)
(* is found, 117-124 with the append of line 146: the two searches         *)
ResolveLine(i) ==
    /\ pc[i] = "loop"
    /\ k[i] <= Len(concepts[i])
    /\ LET concept == concepts[i][k[i]]
           uom == ResolveUom(uoms, concept)
           found == SearchProduct(products, concept)
       IN
       /\ product_uom' = [product_uom EXCEPT ![i] = uom]
       /\ product' = [product EXCEPT ![i] = found]
       /\ \/ /\ found = 0
             /\ pc' = [pc EXCEPT ![i] = "create_product"]
             /\ UNCHANGED <<lines_vals_list, k>>
          \/ /\ found # 0
             /\ lines_vals_list' =
                   [lines_vals_list EXCEPT
                      ![i] = Append(@, LineVals(concept, sale_order[i],
                                                ItemOf(products, found), uom))]
             /\ k' = [k EXCEPT ![i] = @ + 1]
             /\ UNCHANGED pc
    /\ UNCHANGED <<bc3_file, bc3_filename, version_id, lines, concepts, sale_order,
                   raised, versions, orders, order_lines, products, uoms, arg, ret>>

(* a variant that looks the reference code up again before it creates *)
CreateProduct_Unique(i) ==
    /\ pc[i] = "create_product"
    /\ LET concept == concepts[i][k[i]]
           again == SearchProduct(products, concept)
           item == IF again # 0 THEN ItemOf(products, again)
                   ELSE ProductVals(concept, product_uom[i])
                           @@ [id |-> NextId(products), by |-> i]
       IN
       /\ products' = products \cup {item}
       /\ product' = [product EXCEPT ![i] = item.id]
       /\ lines_vals_list' =
             [lines_vals_list EXCEPT
                ![i] = Append(@, LineVals(concept, sale_order[i], item, product_uom[i]))]
    /\ k' = [k EXCEPT ![i] = @ + 1]
    /\ pc' = [pc EXCEPT ![i] = "loop"]
    /\ UNCHANGED <<bc3_file, bc3_filename, version_id, lines, concepts, sale_order,
                   product_uom, raised, versions, orders, order_lines, uoms, arg, ret>>

(* _prepare_sale_order_line_from_concept, lines 106-124 with the append of *)
(* line 146: the lookup missed, the item is created                        *)
CreateProduct(i) ==
    /\ pc[i] = "create_product"
    /\ LET concept == concepts[i][k[i]]
           item == ProductVals(concept, product_uom[i])
                      @@ [id |-> NextId(products), by |-> i]
       IN
       /\ products' = products \cup {item}
       /\ product' = [product EXCEPT ![i] = item.id]
       /\ lines_vals_list' =
             [lines_vals_list EXCEPT
                ![i] = Append(@, LineVals(concept, sale_order[i], item, product_uom[i]))]
    /\ k' = [k EXCEPT ![i] = @ + 1]
    /\ pc' = [pc EXCEPT ![i] = "loop"]
    /\ UNCHANGED <<bc3_file, bc3_filename, version_id, lines, concepts, sale_order,
                   product_uom, raised, versions, orders, order_lines, uoms, arg, ret>>

(* _create_sale_order_and_lines, lines 148-151, and the return of          *)
(* action_import, lines 161-166                                            *)
CreateLines(i) ==
    /\ pc[i] = "loop"
    /\ k[i] > Len(concepts[i])
    /\ order_lines' = IF Len(lines_vals_list[i]) > 0
                      THEN order_lines \cup Created(order_lines, lines_vals_list[i], i)
                      ELSE order_lines
    /\ pc' = [pc EXCEPT ![i] = "done"]
    /\ UNCHANGED <<bc3_file, bc3_filename, version_id, lines, concepts, sale_order, k,
                   product_uom, product, lines_vals_list, raised, versions, orders,
                   products, uoms, arg, ret>>

Step(i) ==
    \/ CreateVersion(i)
    \/ GetData(i)
    \/ PrepareConcepts(i)
    \/ CreateOrder(i)
    \/ ResolveLine(i)
    \/ CreateProduct(i)
    \/ CreateLines(i)

(* Imports run concurrently, each in its own request: any import that has  *)
(* not ended takes the next step.                                          *)
Next == \E i \in Imports : Step(i)

Spec == Init /\ [][Next]_vars

(* Sequential execution: an import steps only while no other is under way. *)
Running(i) == pc[i] \notin {"ready", "done", "failed"}

NextSeq == \E i \in Imports : (\A j \in Imports \ {i} : ~Running(j)) /\ Step(i)

SpecSeq == Init /\ [][NextSeq]_vars

----------------------------------------------------------------------------
(* The decoder and the extractor run on their own.                         *)

Parked ==
    /\ Idle
    /\ pc = [i \in Imports |-> "done"]
    /\ bc3_file = [i \in Imports |-> NoFile]
    /\ bc3_filename = [i \in Imports |-> ""]
    /\ products = {}
    /\ ret = NotRun

InitDecode == Parked /\ arg \in SeqsUpTo(DecodeBytes, MaxBytes)

RunDecode ==
    /\ ret = NotRun
    /\ ret' = Decode(arg)
    /\ UNCHANGED <<pc, bc3_file, bc3_filename, version_id, lines, concepts, sale_order,
                   k, product_uom, product, lines_vals_list, raised, versions, orders,
                   order_lines, products, uoms, arg>>

SpecDecode == InitDecode /\ [][RunDecode]_vars

InitExtract == Parked /\ arg \in SeqsUpTo(LinePool, MaxLines)

RunExtract ==
    /\ ret = NotRun
    /\ ret' = PrepareConceptsDict(arg, 1)
    /\ UNCHANGED <<pc, bc3_file, bc3_filename, version_id, lines, concepts, sale_order,
                   k, product_uom, product, lines_vals_list, raised, versions, orders,
                   order_lines, products, uoms, arg>>

SpecExtract == InitExtract /\ [][RunExtract]_vars

----------------------------------------------------------------------------
(* What an import has created.                                             *)

VersionsBy(i) == {r \in versions : r.by = i}
OrdersBy(i) == {r \in orders : r.by = i}
LinesBy(i) == {r \in order_lines : r.by = i}
ProductsBy(i) == {r \in products : r.by = i}

(* the order line created for the n-th concept of import i: create() gives *)
(* the lines of one list consecutive ids                                   *)
LineOf(i, n) == CHOOSE l \in LinesBy(i) : l.id = MinId(LinesBy(i)) + n - 1

----------------------------------------------------------------------------
(* C1: when action_import runs with no file, MissingInputError is raised   *)
(* before any processing: at that moment the import has created no record, *)
(* not even a version marker.                                              *)
MissingInputBeforeAnyRecord ==
    \A i \in Imports :
        raised[i] = MissingInputError =>
            /\ VersionsBy(i) = {} /\ version_id[i] = 0
            /\ OrdersBy(i) = {} /\ LinesBy(i) = {} /\ ProductsBy(i) = {}

----------------------------------------------------------------------------
(* The lines of the extractor's argument, as the specification classes     *)
(* them: a tagged line is skipped when fewer than 4 fields follow the      *)
(* marker, when its code is empty, or when its price text is not empty and *)
(* not a number; the other tagged lines are usable.                        *)

Tagged(l) == startswith(strip(l), Marker)

Fields(l) == split(SubSeq(strip(l), Len(Marker) + 1, Len(strip(l))), DELIMITER)

IsSkipped(l) ==
    /\ Tagged(l)
    /\ \/ Len(Fields(l)) < 4
       \/ Len(Fields(l)[1]) = 0
       \/ /\ Len(Fields(l)[4]) > 0
          /\ float(replace(Fields(l)[4], 44, 46)).kind = "ValueError"

Usable(l) == Tagged(l) /\ ~IsSkipped(l)

NotSkipped(l) == ~IsSkipped(l)

Extracted == ret # NotRun

(* C2: every Concept of the table _prepare_concepts_dict returns has a     *)
(* non-empty code and a price that is a finite non-negative number.        *)
ConceptPricesFiniteNonNegative ==
    Extracted =>
        \A n \in 1..Len(ret.concepts) :
            /\ Len(ret.concepts[n].code) > 0
            /\ IsFinite(ret.concepts[n].price)
            /\ NonNegative(ret.concepts[n].price)

(* C3: extraction returns without raising, and the table it returns is the *)
(* table extracted from the same lines with the skipped ones removed.      *)
SkippedLinesChangeNothing ==
    Extracted =>
        /\ ret.raised = "none"
        /\ ret.concepts = PrepareConceptsDict(SelectSeq(arg, NotSkipped), 1).concepts

(* a skipped line with a bad price stands between two other lines, after a *)
(* usable line of the same code, and the table still holds that entry      *)
SkippedLineBetweenUsable ==
    /\ Extracted
    /\ \E a, b, c \in 1..Len(arg) :
          /\ a < b /\ b < c
          /\ Usable(arg[a]) /\ Usable(arg[c])
          /\ IsSkipped(arg[b]) /\ Len(Fields(arg[b])) >= 4
          /\ Fields(arg[b])[1] = Fields(arg[a])[1]
          /\ Fields(arg[c])[1] # Fields(arg[a])[1]
          /\ Len(ret.concepts) = 2

(* C4: the table holds exactly one Concept for each code of a usable line, *)
(* and it is the data of the last usable line with that code.              *)
LastWriteWins ==
    Extracted =>
        LET usable == {j \in 1..Len(arg) : Usable(arg[j])}
            last(code) == CHOOSE j \in usable :
                             /\ Fields(arg[j])[1] = code
                             /\ \A n \in usable : Fields(arg[n])[1] = code => n <= j
        IN
        /\ \A n, m \in 1..Len(ret.concepts) :
              ret.concepts[n].code = ret.concepts[m].code => n = m
        /\ {ret.concepts[n].code : n \in 1..Len(ret.concepts)}
              = {Fields(arg[j])[1] : j \in usable}
        /\ \A n \in 1..Len(ret.concepts) :
              LET f == Fields(arg[last(ret.concepts[n].code)]) IN
              ret.concepts[n] =
                  [code |-> f[1], uom |-> f[2], description |-> f[3],
                   price |-> PriceOf(f[4]), quantity |-> FloatOne, version_id |-> 1]

(* two usable lines share a code and differ in uom, description and price *)
CodeWrittenTwice ==
    /\ Extracted
    /\ \E a, b \in 1..Len(arg) :
          /\ a < b /\ Usable(arg[a]) /\ Usable(arg[b])
          /\ Fields(arg[a])[1] = Fields(arg[b])[1]
          /\ Fields(arg[a])[2] # Fields(arg[b])[2]
          /\ Fields(arg[a])[3] # Fields(arg[b])[3]
          /\ PriceOf(Fields(arg[a])[4]) # PriceOf(Fields(arg[b])[4])

----------------------------------------------------------------------------
(* C8: the decoder returns the lines of the windows-1252 decoding whenever *)
(* that decoding succeeds, without calling UTF-8; the lines of the UTF-8   *)
(* decoding only when windows-1252 fails; DecodingError exactly when both  *)
(* fail; and no line and no error for empty input.                         *)
LegacyEncodingFirst ==
    ret # NotRun =>
        LET legacy == DecodeCp1252(arg)
            utf8 == DecodeUtf8(arg)
        IN
        /\ legacy.raised = "none" =>
              /\ ret.raised = "none"
              /\ ret.lines = splitlines(legacy.text)
              /\ ret.attempted = <<"windows-1252">>
        /\ legacy.raised # "none" /\ utf8.raised = "none" =>
              /\ ret.raised = "none"
              /\ ret.lines = splitlines(utf8.text)
        /\ ret.raised = DecodingError <=> (legacy.raised # "none" /\ utf8.raised # "none")
        /\ arg = <<>> => ret.raised = "none" /\ ret.lines = <<>>

(* bytes that decode under both encodings, to different texts *)
ValidInBothEncodings ==
    /\ ret # NotRun
    /\ DecodeCp1252(arg).raised = "none"
    /\ DecodeUtf8(arg).raised = "none"
    /\ splitlines(DecodeCp1252(arg).text) # splitlines(DecodeUtf8(arg).text)
    /\ ret.lines = splitlines(DecodeCp1252(arg).text)

----------------------------------------------------------------------------
(* the import has extracted its table *)
HasTable(i) ==
    \/ pc[i] \in {"create_order", "loop", "create_product", "done"}
    \/ raised[i] = NoValidDataError

(* C5: an import whose table is empty fails with NoValidDataError and has  *)
(* created no order header, no order line and no catalog item: it never    *)
(* gets past the emptiness check, which comes before the header.           *)
EmptyTableCreatesNothing ==
    \A i \in Imports :
        /\ HasTable(i) /\ Len(concepts[i]) = 0 =>
              /\ pc[i] \in {"create_order", "failed"}
              /\ pc[i] = "failed" => raised[i] = NoValidDataError
              /\ OrdersBy(i) = {} /\ sale_order[i] = 0
              /\ LinesBy(i) = {} /\ ProductsBy(i) = {}
        /\ raised[i] = NoValidDataError => Len(concepts[i]) = 0

(* an import of a file whose only tagged line is skipped has failed *)
FailedOnEmptyTable ==
    \E i \in Imports :
        /\ pc[i] = "failed" /\ raised[i] = NoValidDataError
        /\ \E n \in 1..Len(lines[i]) : IsSkipped(lines[i][n])

(* C6: a successful import has created exactly one order and one order     *)
(* line per Concept; each line refers to that order and carries quantity   *)
(* 1.0, the Concept's price and the Concept's description.                 *)
OneLinePerConcept ==
    \A i \in Imports :
        pc[i] = "done" =>
            /\ Len(concepts[i]) > 0
            /\ Cardinality(OrdersBy(i)) = 1
            /\ \A o \in OrdersBy(i) : o.id = sale_order[i]
            /\ Cardinality(LinesBy(i)) = Len(concepts[i])
            /\ Cardinality({concepts[i][n].code : n \in 1..Len(concepts[i])})
                  = Len(concepts[i])
            /\ \A n \in 1..Len(concepts[i]) :
                  /\ \E l \in LinesBy(i) : l.id = MinId(LinesBy(i)) + n - 1
                  /\ LineOf(i, n).order_id = sale_order[i]
                  /\ LineOf(i, n).product_uom_qty = FloatOne
                  /\ LineOf(i, n).price_unit = concepts[i][n].price
                  /\ LineOf(i, n).name = concepts[i][n].description

(* a finished import whose line refers to an item that was in the catalog  *)
(* before, with another price and another name than the Concept's          *)
LineOfFoundItem ==
    \E i \in Imports :
        /\ pc[i] = "done"
        /\ \E n \in 1..Len(concepts[i]) : \E q \in products :
              /\ q.by = 0 /\ LineOf(i, n).product_id = q.id
              /\ q.list_price # concepts[i][n].price
              /\ LineOf(i, n).price_unit = concepts[i][n].price

(* C7: nothing in the reconciler stands between a missed lookup and the    *)
(* creation: the step that leaves the create always adds an item with the  *)
(* Concept's description as reference code, whatever the catalog holds by  *)
(* then, so two concurrent imports can both create one.                    *)
CreateAfterMissIsUnconditional ==
    [][\A i \in Imports :
          pc[i] = "create_product" /\ pc'[i] # "create_product" =>
              \E q \in products' \ products :
                  /\ q.by = i
                  /\ q.default_code = concepts[i][k[i]].description]_vars

(* two imports have each created an item with the same reference code *)
DuplicateItems ==
    \E p, q \in products :
        /\ p.id # q.id /\ p.default_code = q.default_code
        /\ p.by # 0 /\ q.by # 0 /\ p.by # q.by
        /\ pc[p.by] = "done" /\ pc[q.by] = "done"

(* the unit the specification resolves a name to *)
UnitFor(name) ==
    IF \E u \in InitialUoms : u.name = name
    THEN (CHOOSE u \in InitialUoms : u.name = name).id
    ELSE DefaultUom

(* C9: no import creates a unit of measure; every order line, and every    *)
(* catalog item an import creates, refers to the existing unit named as    *)
(* the Concept's uom, or to the default unit when there is none.           *)
UnitsResolvedNeverCreated ==
    /\ uoms = InitialUoms
    /\ \A i \in Imports :
          /\ pc[i] = "done" =>
                \A n \in 1..Len(concepts[i]) :
                    LineOf(i, n).product_uom = UnitFor(concepts[i][n].uom)
          /\ \A q \in ProductsBy(i) :
                \E n \in 1..Len(concepts[i]) :
                    /\ q.default_code = concepts[i][n].description
                    /\ q.uom_id = UnitFor(concepts[i][n].uom)
                    /\ q.uom_po_id = UnitFor(concepts[i][n].uom)

(* a finished import with a line on a named unit other than the default,   *)
(* and a line and a created item on the default unit for an unknown name   *)
NamedAndDefaultUnit ==
    \E i \in Imports :
        /\ pc[i] = "done"
        /\ \E n, m \in 1..Len(concepts[i]) :
              /\ LineOf(i, n).product_uom # DefaultUom
              /\ \A u \in uoms : u.name # concepts[i][m].uom
              /\ LineOf(i, m).product_uom = DefaultUom
              /\ \E q \in ProductsBy(i) :
                    q.id = LineOf(i, m).product_id /\ q.uom_id = DefaultUom

(* C10: under sequential execution the catalog keeps at most one item per  *)
(* reference code: a second import of the same file creates no item, and   *)
(* two Concepts of one import with the same description share one item.    *)
OneItemPerCodeWhenSequential ==
    /\ \A p, q \in products : p.default_code = q.default_code => p = q
    /\ \A i, j \in Imports :
          i # j /\ pc[i] = "done" /\ pc[j] = "done" /\ bc3_file[i] = bc3_file[j] =>
              ProductsBy(i) = {} \/ ProductsBy(j) = {}
    /\ \A i \in Imports :
          pc[i] = "done" =>
              \A n, m \in 1..Len(concepts[i]) :
                  concepts[i][n].description = concepts[i][m].description =>
                      LineOf(i, n).product_id = LineOf(i, m).product_id

(* the same file imported twice: the first import created the one item its *)
(* two Concepts share, the second found it                                 *)
ReimportFindsItem ==
    \E i, j \in Imports :
        /\ i # j /\ pc[i] = "done" /\ pc[j] = "done" /\ bc3_file[i] = bc3_file[j]
        /\ Cardinality(ProductsBy(i)) = 1 /\ ProductsBy(j) = {}
        /\ Len(concepts[i]) = 2
        /\ concepts[i][1].code # concepts[i][2].code
        /\ \A q \in ProductsBy(i) :
              /\ LineOf(i, 1).product_id = q.id /\ LineOf(i, 2).product_id = q.id
              /\ LineOf(j, 1).product_id = q.id /\ LineOf(j, 2).product_id = q.id

====
